---- MODULE Spec2Model ----
(***************************************************************************)
(* Model of the cpio "newc" reader of src/src/lib.rs.                      *)
(*                                                                         *)
(* A byte is a number in 0..255.  A slice (&[u8]) is a sequence of bytes.  *)
(* The reader holds one field, buf, the remaining view of the caller's     *)
(* buffer; every call of Iterator::next runs inner on it.                  *)
(***************************************************************************)
EXTENDS Integers, Sequences, FiniteSets

VARIABLES
    input,  \* the byte buffer the caller handed to CpioNewcReader::new
    buf,    \* CpioNewcReader.buf: the remaining view
    res,    \* what the latest call of next returned ("Start" before any call)
    out,    \* the results of the first MaxSteps calls of next, in order
    tick,   \* the parity of the number of calls of next made so far
    buf2,   \* the remaining view of a second reader over the same buffer
    res2,   \* what the latest call of next on the second reader returned
    out2    \* the results of the first MaxSteps calls on the second reader

vars == <<input, buf, res, out, tick, buf2, res2, out2>>

----------------------------------------------------------------------------
(* Bounds of the model.                                                    *)

\* Number of pieces (records, garbage) laid end to end in a generated buffer.
MaxRecords == 2
\* Number of files in a generated valid archive.
MaxFiles == 2
\* Number of calls of next whose results are kept in out.
MaxSteps == 4

----------------------------------------------------------------------------
(* Constants of the program.                                               *)

HEADER_LEN == 110
\* b"070701"
MAGIC_NUMBER == <<48, 55, 48, 55, 48, 49>>
\* "TRAILER!!!"
TRAILER == <<84, 82, 65, 73, 76, 69, 82, 33, 33, 33>>

\* The names of the eleven fields of Metadata, in header order.
MetaFields == <<"ino", "mode", "uid", "gid", "nlink", "mtime", "file_size",
                "dev_major", "dev_minor", "rdev_major", "rdev_minor">>

Metadata(v) ==
    [ino |-> v[1], mode |-> v[2], uid |-> v[3], gid |-> v[4], nlink |-> v[5],
     mtime |-> v[6], file_size |-> v[7], dev_major |-> v[8], dev_minor |-> v[9],
     rdev_major |-> v[10], rdev_minor |-> v[11]]

NoMetadata == Metadata([i \in 1..11 |-> 0])

----------------------------------------------------------------------------
(* Results.  Every result has the same shape; the fields that a kind does  *)
(* not carry hold a fixed filler.                                          *)

ReadError == {"InvalidASCII", "InvalidMagic", "InvalidName", "BufTooShort"}

Plain(kind) == [kind |-> kind, err |-> "", metadata |-> NoMetadata, name |-> <<>>, data |-> <<>>]

\* Ok(Object { metadata, name, data })
Object(metadata, name, data) ==
    [kind |-> "Ok", err |-> "", metadata |-> metadata, name |-> name, data |-> data]

\* Err(e)
Err(e) == [Plain("Err") EXCEPT !.err = e]

\* Iterator::next returned None
None == Plain("None")

\* The call did not return: it panicked.
Panic == Plain("Panic")

\* No call of next has been made yet.
Start == Plain("Start")

----------------------------------------------------------------------------
(* Library functions the reader calls.                                     *)

\* char::to_digit(16) accepts this byte
IsHexDigit(b) == b \in 48..57 \/ b \in 65..70 \/ b \in 97..102

\* char::to_digit(16) of a byte it accepts
DigitVal(b) == IF b \in 48..57 THEN b - 48 ELSE IF b \in 65..70 THEN b - 55 ELSE b - 87

\* The number a run of hexadecimal digits denotes, most significant first.
RECURSIVE HexValue(_)
HexValue(digits) ==
    IF digits = <<>> THEN 0
    ELSE 16 * HexValue(SubSeq(digits, 1, Len(digits) - 1)) + DigitVal(digits[Len(digits)])

\* u32::from_str_radix(src, 16): an unsigned target takes one leading '+' and
\* no '-'; a lone sign and the empty string are errors.  At most 8 digits
\* reach it here, so the value fits 32 bits.
from_str_radix(src) ==
    LET digits == IF Len(src) > 1 /\ src[1] = 43 THEN Tail(src) ELSE src
    IN  IF digits # <<>> /\ \A i \in 1..Len(digits) : IsHexDigit(digits[i])
        THEN [ok |-> TRUE, val |-> HexValue(digits)]
        ELSE [ok |-> FALSE, val |-> 0]

\* s[j] exists and lies in lo..hi
ByteIn(s, j, lo, hi) == j <= Len(s) /\ s[j] \in lo..hi

\* core::str::from_utf8 accepts the bytes of s from index i on
RECURSIVE Utf8From(_, _)
Utf8From(s, i) ==
    IF i > Len(s) THEN TRUE
    ELSE LET b == s[i]
             c(j) == ByteIn(s, j, 128, 191)
         IN  IF b < 128 THEN Utf8From(s, i + 1)
             ELSE IF b \in 194..223 THEN c(i + 1) /\ Utf8From(s, i + 2)
             ELSE IF b = 224 THEN ByteIn(s, i + 1, 160, 191) /\ c(i + 2) /\ Utf8From(s, i + 3)
             ELSE IF b \in 225..236 \/ b \in 238..239
                  THEN c(i + 1) /\ c(i + 2) /\ Utf8From(s, i + 3)
             ELSE IF b = 237 THEN ByteIn(s, i + 1, 128, 159) /\ c(i + 2) /\ Utf8From(s, i + 3)
             ELSE IF b = 240
                  THEN ByteIn(s, i + 1, 144, 191) /\ c(i + 2) /\ c(i + 3) /\ Utf8From(s, i + 4)
             ELSE IF b \in 241..243
                  THEN c(i + 1) /\ c(i + 2) /\ c(i + 3) /\ Utf8From(s, i + 4)
             ELSE IF b = 244
                  THEN ByteIn(s, i + 1, 128, 143) /\ c(i + 2) /\ c(i + 3) /\ Utf8From(s, i + 4)
             ELSE FALSE

\* core::str::from_utf8(s).is_ok()
from_utf8(s) == Utf8From(s, 1)

----------------------------------------------------------------------------
(* Cursor primitives: impl BufExt for &[u8].  Each returns its status      *)
(* ("ok", "err" or "panic"), the error, the value and the view it leaves.  *)

Done(val, rest) == [status |-> "ok", err |-> "", val |-> val, buf |-> rest]
Failed(e, rest) == [status |-> "err", err |-> e, val |-> <<>>, buf |-> rest]
Panicked(rest) == [status |-> "panic", err |-> "", val |-> <<>>, buf |-> rest]

\* split_at that keeps the front of the slice as the rest.
split_at_front(b, n) == [head |-> SubSeq(b, 1, n), rest |-> SubSeq(b, 1, Len(b) - n)]

\* slice.split_at(n), for n <= len
split_at(b, n) == [head |-> SubSeq(b, 1, n), rest |-> SubSeq(b, n + 1, Len(b))]

\* read_bytes that empties the view when it is too short.
read_bytes_consuming(b, len) ==
    IF Len(b) < len THEN Failed("BufTooShort", <<>>)
    ELSE LET s == split_at(b, len) IN Done(s.head, s.rest)

\* read_bytes that hands out what is left when the view is too short.
read_bytes_clamped(b, len) ==
    IF Len(b) < len THEN Done(b, <<>>)
    ELSE LET s == split_at(b, len) IN Done(s.head, s.rest)

read_bytes(b, len) ==
    IF Len(b) < len THEN Failed("BufTooShort", b)
    ELSE LET s == split_at(b, len) IN Done(s.head, s.rest)

\* split_at(8) panics on a view of fewer than 8 bytes; the view is advanced
\* before the text is decoded.
read_hex_u32(b) ==
    IF Len(b) < 8 THEN Panicked(b)
    ELSE LET s == split_at(b, 8)
             v == from_str_radix(s.head)
         IN  IF ~from_utf8(s.head) THEN Failed("InvalidASCII", s.rest)
             ELSE IF ~v.ok THEN Failed("InvalidASCII", s.rest)
             ELSE Done(v.val, s.rest)

\* pad_to_4 that pads by the remainder instead of its complement.
pad_to_4_floor(len) == len % 4

\* pad_to_4 that never pads.
pad_to_4_none(len) == 0

\* pad_to_4 that pads an aligned length by a whole word.
pad_to_4_always(len) == 4 - (len % 4)

pad_to_4(len) == IF len % 4 = 0 THEN 0 ELSE 4 - (len % 4)

----------------------------------------------------------------------------
(* The record decoder.                                                     *)

\* The n consecutive read_hex_u32()? calls of inner: the first failure ends
\* the chain with the view as that call left it.
RECURSIVE read_fields(_, _, _)
read_fields(b, n, acc) ==
    IF n = 0 THEN Done(acc, b)
    ELSE LET r == read_hex_u32(b)
         IN  IF r.status # "ok" THEN r
             ELSE read_fields(r.buf, n - 1, Append(acc, r.val))

\* The length check that asks only for the magic.
header_too_short_magic(b) == Len(b) < 6

\* buf.len() < HEADER_LEN
header_too_short(b) == Len(b) < HEADER_LEN

\* The magic check that looks at the first four bytes only.
magic_matches_prefix(m) == SubSeq(m, 1, 4) = SubSeq(MAGIC_NUMBER, 1, 4)

\* magic == MAGIC_NUMBER
magic_matches(m) == m = MAGIC_NUMBER

\* The terminator check that lets an empty name through.
name_terminated_or_empty(s) == s = <<>> \/ s[Len(s)] = 0

\* name_with_nul.last() == Some(&0)
name_terminated(s) == Len(s) > 0 /\ s[Len(s)] = 0

\* What a primitive's failure makes of the call of inner: `?` returns the
\* error, a panic unwinds.
Abort(r) == [res |-> IF r.status = "panic" THEN Panic ELSE Err(r.err), buf |-> r.buf]

\* inner from the Metadata literal on: fields are the 13 values of the header,
\* b is the view behind the header.
read_record(fields, b) ==
    LET file_size == fields[7]
        name_size == fields[12]
        metadata == Metadata(fields)
        name_with_nul == read_bytes(b, name_size)
    IN
    IF name_with_nul.status # "ok" THEN Abort(name_with_nul)
    ELSE IF ~name_terminated(name_with_nul.val)
         THEN [res |-> Err("InvalidName"), buf |-> name_with_nul.buf]
    ELSE IF name_size - 1 < 0 THEN [res |-> Panic, buf |-> name_with_nul.buf]
    ELSE
    LET name == SubSeq(name_with_nul.val, 1, name_size - 1) IN
    IF ~from_utf8(name) THEN [res |-> Err("InvalidName"), buf |-> name_with_nul.buf]
    ELSE
    LET pad1 == read_bytes(name_with_nul.buf, pad_to_4(HEADER_LEN + name_size)) IN
    IF pad1.status # "ok" THEN Abort(pad1)
    ELSE
    LET data == read_bytes(pad1.buf, file_size) IN
    IF data.status # "ok" THEN Abort(data)
    ELSE
    LET pad2 == read_bytes(data.buf, pad_to_4(file_size)) IN
    IF pad2.status # "ok" THEN Abort(pad2)
    ELSE [res |-> Object(metadata, name, data.val), buf |-> pad2.buf]

inner(b) ==
    IF header_too_short(b) THEN [res |-> Err("BufTooShort"), buf |-> b]
    ELSE
    LET magic == read_bytes(b, 6) IN
    IF magic.status # "ok" THEN Abort(magic)
    ELSE IF ~magic_matches(magic.val) THEN [res |-> Err("InvalidMagic"), buf |-> magic.buf]
    ELSE
    LET hdr == read_fields(magic.buf, 13, <<>>) IN
    IF hdr.status # "ok" THEN Abort(hdr)
    ELSE read_record(hdr.val, hdr.buf)

----------------------------------------------------------------------------
(* The iteration driver.                                                   *)

\* The trailer pattern that also asks for empty data.
is_trailer_empty(r) == r.kind = "Ok" /\ r.name = TRAILER /\ r.data = <<>>

\* The pattern Ok(Object { name: "TRAILER!!!", .. })
is_trailer(r) == r.kind = "Ok" /\ r.name = TRAILER

\* Iterator::next.  A panic ends the program: no call follows it.
next ==
    /\ res.kind # "Panic"
    /\ LET r == inner(buf)
           item == IF is_trailer(r.res) THEN None ELSE r.res
       IN  /\ buf' = r.buf
           /\ res' = item
           /\ out' = IF Len(out) < MaxSteps THEN Append(out, item) ELSE out
    /\ tick' = 1 - tick
    /\ UNCHANGED <<input, buf2, res2, out2>>

\* A second reader whose calls read and move the first reader's view.
next2_shared ==
    /\ res2.kind # "Panic"
    /\ LET r == inner(buf)
           item == IF is_trailer(r.res) THEN None ELSE r.res
       IN  /\ buf' = r.buf
           /\ res2' = item
           /\ out2' = IF Len(out2) < MaxSteps THEN Append(out2, item) ELSE out2
    /\ UNCHANGED <<input, res, out, tick, buf2>>

\* Iterator::next on the second reader.
next2 ==
    /\ res2.kind # "Panic"
    /\ LET r == inner(buf2)
           item == IF is_trailer(r.res) THEN None ELSE r.res
       IN  /\ buf2' = r.buf
           /\ res2' = item
           /\ out2' = IF Len(out2) < MaxSteps THEN Append(out2, item) ELSE out2
    /\ UNCHANGED <<input, buf, res, out, tick>>

----------------------------------------------------------------------------
(* The buffers a caller may hand over: newc records laid end to end,       *)
(* whole, cut short, or with one byte changed.                             *)

Pow16 == <<1, 16, 256, 4096, 65536, 1048576, 16777216, 268435456>>

HexChar(d, upper) == IF d < 10 THEN 48 + d ELSE IF upper THEN 55 + d ELSE 87 + d

\* The 8-character hexadecimal text of n, most significant digit first.
ToHex8(n, upper) == [i \in 1..8 |-> HexChar((n \div Pow16[9 - i]) % 16, upper)]

Zeros(n) == [i \in 1..n |-> 0]

RECURSIVE Concat(_)
Concat(ss) == IF ss = <<>> THEN <<>> ELSE Head(ss) \o Concat(Tail(ss))

\* The next multiple of 4 at or above n: where the format puts what follows
\* a name or a file's data.
Aligned(n) == 4 * ((n + 3) \div 4)

\* A well-formed record: f holds ino, mode, uid, gid, nlink, mtime, dev_major,
\* dev_minor, rdev_major, rdev_minor; file_size is the length of the data.
Record(name, data, f, check, upper) ==
    [metadata |-> Metadata(<<f[1], f[2], f[3], f[4], f[5], f[6], Len(data),
                             f[7], f[8], f[9], f[10]>>),
     name |-> name, data |-> data, check |-> check, upper |-> upper]

\* The bytes of a well-formed record: header, name with terminator, padding,
\* data, padding.
Encode(r) ==
    LET name_size == Len(r.name) + 1
        file_size == r.metadata.file_size
    IN  MAGIC_NUMBER
        \o Concat([i \in 1..11 |-> ToHex8(r.metadata[MetaFields[i]], r.upper)])
        \o ToHex8(name_size, r.upper)
        \o ToHex8(r.check, r.upper)
        \o r.name \o <<0>> \o Zeros(Aligned(HEADER_LEN + name_size) - (HEADER_LEN + name_size))
        \o r.data \o Zeros(Aligned(file_size) - file_size)

EncodeAll(rs) == Concat([i \in 1..Len(rs) |-> Encode(rs[i])])

\* "a", empty, every field zero: 112 bytes, no padding at all
FileA == Record(<<97>>, <<>>, <<0, 0, 0, 0, 0, 0, 0, 0, 0, 0>>, 0, FALSE)
\* "h" and a two-byte UTF-8 character, holding "ok" and a byte that is no
\* text; upper-case digits, the largest mtime below 2^31
FileHi == Record(<<104, 195, 169>>, <<111, 107, 255>>,
                 <<6699, 33188, 1000, 1000, 1, 2147483647, 8, 1, 0, 0>>, 48879, TRUE)
\* the usual trailer
Trailer == Record(TRAILER, <<>>, <<0, 0, 0, 0, 1, 0, 0, 0, 0, 0>>, 0, FALSE)
\* a trailer that carries metadata and data, lower-case digits
TrailerX == Record(TRAILER, <<120>>, <<43981, 41471, 1, 1, 1, 1, 0, 0, 10, 11>>, 65261, FALSE)

Files == {FileA, FileHi}
Trailers == {Trailer, TrailerX}

\* The first bytes of a gzip stream: what a reader meets in a buffer that was
\* never decompressed.
Gzip == <<31, 139, 8, 0>>

\* What a damaged buffer is made of.
Pieces == {Encode(r) : r \in Files \cup {Trailer}} \cup {Gzip}

\* Every sequence of at most n elements of S.
RECURSIVE SeqsUpTo(_, _)
SeqsUpTo(S, n) ==
    IF n = 0 THEN {<<>>}
    ELSE LET shorter == SeqsUpTo(S, n - 1)
         IN  shorter \cup {Append(q, x) : q \in shorter, x \in S}

\* The bytes written over a byte of a buffer: NUL, '+', '0', 0xFF.
CorruptBytes == {0, 43, 48, 255}

Truncations(b) == {SubSeq(b, 1, n) : n \in 0..Len(b)}
Corruptions(b) == {[b EXCEPT ![p] = c] : p \in 1..Len(b), c \in CorruptBytes}

\* Valid archives: files, then one trailer.
ValidArchives == {Append(fs, t) : fs \in SeqsUpTo(Files, MaxFiles), t \in Trailers}

\* Valid archives with their bytes.
ValidBuffers == {[records |-> a, bytes |-> EncodeAll(a)] : a \in ValidArchives}

\* Pieces laid end to end, cut short anywhere.
CutBuffers == UNION {Truncations(Concat(ps)) : ps \in SeqsUpTo(Pieces, MaxRecords)}

\* One byte of the first piece changed, more pieces behind it.
BentBuffers ==
    UNION {{c \o Concat(ps) : c \in Corruptions(p)} :
           p \in Pieces, ps \in SeqsUpTo(Pieces, MaxRecords - 1)}

Buffers == {v.bytes : v \in ValidBuffers} \cup CutBuffers \cup BentBuffers

----------------------------------------------------------------------------
(* The state machine.                                                      *)

\* CpioNewcReader::new(buf) for the second reader
Second == buf2 = input /\ res2 = Start /\ out2 = <<>>

\* CpioNewcReader::new(buf)
Init ==
    /\ input \in Buffers
    /\ buf = input
    /\ res = Start
    /\ out = <<>>
    /\ tick = 0
    /\ Second

\* The caller makes at most MaxSteps calls.
Next == Len(out) < MaxSteps /\ next

Spec == Init /\ [][Next]_vars

\* A caller that never stops asking for the next item, over a buffer that
\* was cut short.
LiveInit ==
    /\ input \in CutBuffers
    /\ buf = input
    /\ res = Start
    /\ out = <<>>
    /\ tick = 0
    /\ Second

\* The caller asks for the next item.  Every call of next flips tick and
\* nothing else does, so the steps that flip tick are the calls of next, and
\* a call is possible exactly when no call has panicked.
Asks == res.kind # "Panic" /\ tick' = 1 - tick

LiveSpec == LiveInit /\ [][next]_vars /\ WF_tick(Asks)

\* Two readers over one buffer, called in any order, at most MaxSteps calls
\* each.  The buffers are valid archives and whole pieces laid end to end.
PairBuffers ==
    {v.bytes : v \in ValidBuffers} \cup {Concat(ps) : ps \in SeqsUpTo(Pieces, MaxRecords)}

PairInit ==
    /\ input \in PairBuffers
    /\ buf = input
    /\ res = Start
    /\ out = <<>>
    /\ tick = 0
    /\ Second

PairNext == (Len(out) < MaxSteps /\ next) \/ (Len(out2) < MaxSteps /\ next2)

PairSpec == PairInit /\ [][PairNext]_vars

----------------------------------------------------------------------------
(* Properties.                                                             *)

\* The calls of next whose results are recorded.
Steps == 1..Len(out)

\* The archive header at the front of view b is long enough, carries the
\* magic, and b[p] is a byte of one of its 13 hexadecimal fields.
FieldBytes == 7..HEADER_LEN
HasMagic(b) == Len(b) >= HEADER_LEN /\ SubSeq(b, 1, 6) = MAGIC_NUMBER

\* C1: once a call of next has returned None, every later call returns None
\* as well, whatever follows the trailer in the buffer.
C1_TerminalAbsorbing ==
    \A i \in Steps, j \in Steps : (i < j /\ out[i] = None) => out[j] = None

\* C2: once a call of next has returned an error, no later call returns a
\* decoded record.
C2_NoRecordAfterError ==
    \A i \in Steps, j \in Steps : (i < j /\ out[i].kind = "Err") => out[j].kind # "Ok"

\* C3: a caller that keeps calling next is told, after finitely many calls,
\* that the sequence has ended.
C3_EventuallyEnds == <>(res = None)

\* C4: no call of next panics: each returns a record, None or one of the four
\* errors; and a header that declares name_size = 0 makes the call return
\* InvalidName.
NameSizeZero(b) ==
    /\ HasMagic(b)
    /\ \A p \in FieldBytes : IsHexDigit(b[p])
    /\ SubSeq(b, 95, 102) = ToHex8(0, FALSE)
C4_NeverPanics ==
    [][next => /\ res'.kind \in {"Ok", "None", "Err"}
               /\ res'.kind = "Err" => res'.err \in ReadError
               /\ NameSizeZero(buf) => res' = Err("InvalidName")]_vars

\* C4 witness: the first call met a header with name_size = 0 and returned
\* InvalidName.
C4_Witness == NameSizeZero(input) /\ out = <<Err("InvalidName")>>

\* C5: over a valid archive of k files and a trailer, calls 1..k return the k
\* files in order, each with its name, data and metadata, and call k+1
\* returns None.
C5_ValidArchive ==
    \A v \in ValidBuffers :
        input = v.bytes =>
            LET k == Len(v.records) - 1
            IN  \A i \in Steps :
                    /\ i <= k => out[i] = Object(v.records[i].metadata,
                                                 v.records[i].name, v.records[i].data)
                    /\ i = k + 1 => out[i] = None

\* C5 witness: two different files and a trailer have been read to the end.
C5_Witness ==
    /\ input = EncodeAll(<<FileHi, FileA, Trailer>>)
    /\ Len(out) = 3
    /\ out[3] = None

\* C6: the data of every returned record is exactly file_size bytes long.
C6_ContentLength ==
    \A i \in Steps : out[i].kind = "Ok" => Len(out[i].data) = out[i].metadata.file_size

\* C6 witness: a record with data has been returned.
C6_Witness == \E i \in Steps : out[i].kind = "Ok" /\ out[i].metadata.file_size > 0

\* C7: no call returns a record named "TRAILER!!!"; a call that decodes such
\* a record returns None, whatever the record's metadata and data are.
DecodesTrailer(b) == LET r == inner(b).res IN r.kind = "Ok" /\ r.name = TRAILER
C7_TrailerHidden ==
    [][next => /\ ~(res'.kind = "Ok" /\ res'.name = TRAILER)
               /\ DecodesTrailer(buf) => res' = None]_vars

\* C7 witness: a trailer carrying metadata and data ended the sequence.
C7_Witness == input = Encode(TrailerX) /\ out = <<None>> /\ buf = <<>>

\* C8: a call that finds 110 bytes and the magic, and a byte that is no
\* hexadecimal digit in one of the 13 header fields, returns InvalidASCII.
C8_StrictHex ==
    [][(next /\ HasMagic(buf) /\ \E p \in FieldBytes : ~IsHexDigit(buf[p]))
          => res' = Err("InvalidASCII")]_vars

\* C9: the name of a returned record holds no zero byte.
C9_NoEmbeddedNul ==
    \A i \in Steps : out[i].kind = "Ok" => \A p \in 1..Len(out[i].name) : out[i].name[p] # 0

\* C10: a call that starts with fewer than 110 bytes remaining returns
\* BufTooShort, whatever those bytes are; so does the first call on a buffer
\* shorter than 110 bytes.
C10_ShortBuffer == [][(next /\ Len(buf) < HEADER_LEN) => res' = Err("BufTooShort")]_vars

\* C10 witness: the first call on a short buffer that does not start with the
\* magic returned BufTooShort.
C10_Witness ==
    /\ Len(input) \in 6..(HEADER_LEN - 1)
    /\ SubSeq(input, 1, 6) # MAGIC_NUMBER
    /\ out = <<Err("BufTooShort")>>

\* C11: a call that starts with at least 110 bytes of which the first 6 are
\* not "070701" returns InvalidMagic, whatever the rest of the header holds.
C11_BadMagic ==
    [][(next /\ Len(buf) >= HEADER_LEN /\ SubSeq(buf, 1, 6) # MAGIC_NUMBER)
          => res' = Err("InvalidMagic")]_vars

\* C11 witness: the first call on a long buffer that starts with gzip bytes
\* returned InvalidMagic.
C11_Witness ==
    /\ Len(input) >= HEADER_LEN
    /\ SubSeq(input, 1, 4) = Gzip
    /\ out = <<Err("InvalidMagic")>>

\* The items the first n calls of next return on a fresh reader over b.
RECURSIVE Run(_, _)
Run(b, n) ==
    IF n = 0 THEN <<>>
    ELSE LET r == inner(b)
         IN  <<IF is_trailer(r.res) THEN None ELSE r.res>> \o Run(r.buf, n - 1)

\* The checksum field of the header at the front of a view, and texts of
\* hexadecimal digits to put there: zero, "0000BEEF", "07070100".
CheckField == 103..HEADER_LEN
CheckTexts == {ToHex8(0, FALSE), ToHex8(48879, TRUE), ToHex8(117899520, FALSE)}
HexCheck(b) == Len(b) >= HEADER_LEN /\ \A p \in CheckField : IsHexDigit(b[p])
WithCheck(b, c) == [p \in 1..Len(b) |-> IF p \in CheckField THEN c[p - 102] ELSE b[p]]

\* C12: two buffers that differ only in the checksum characters of a record
\* header, hexadecimal digits in both, give the same sequence of results.
C12_ChecksumIgnored ==
    HexCheck(input) => \A c \in CheckTexts : Run(WithCheck(input, c), Len(out)) = out

\* C13: two readers over one buffer, called in any order, each return what a
\* fresh reader called alone returns; a call on one reader changes neither
\* the buffer nor the other reader's view.
C13_Independent ==
    [][/\ out' = Run(input, Len(out')) /\ out2' = Run(input, Len(out2'))
       /\ input' = input
       /\ next => buf2' = buf2
       /\ next2 => buf' = buf]_vars

\* C13 witness: both readers have been called, the first twice and then the
\* second once, on a buffer that holds two different files.
C13_Witness ==
    /\ input = EncodeAll(<<FileHi, FileA, Trailer>>)
    /\ Len(out) = 2 /\ Len(out2) = 1
    /\ out2[1] = out[1] /\ out[2] # out[1]

\* Where the data of a well-formed record starts, and where the record ends
\* without its last padding.
DataStart(r) == Aligned(HEADER_LEN + Len(r.name) + 1)
DataEnd(r) == DataStart(r) + Len(r.data)

\* Well-formed files followed by a file cut to n bytes, for the n in cuts(f).
CutAfter(fs, f, cuts) ==
    {[records |-> fs, last |-> f, bytes |-> EncodeAll(fs) \o SubSeq(Encode(f), 1, n)] :
        n \in cuts}

\* Buffers that end inside the data of their last record.
ContentCuts ==
    UNION {CutAfter(fs, f, DataStart(f)..(DataEnd(f) - 1)) :
           fs \in SeqsUpTo(Files, MaxRecords - 1), f \in Files}

\* The calls on a buffer of c.records and a damaged last record return the
\* records, then BufTooShort.
RecordsThenShort(c) ==
    \A i \in Steps :
        /\ i <= Len(c.records) => out[i] = Object(c.records[i].metadata,
                                                  c.records[i].name, c.records[i].data)
        /\ i = Len(c.records) + 1 => out[i] = Err("BufTooShort")

\* C14: over j well-formed files followed by a record whose data is cut off,
\* calls 1..j return the files and call j+1 returns BufTooShort.
C14_CutContent == \A c \in ContentCuts : input = c.bytes => RecordsThenShort(c)

\* C14 witness: a file, then a file with two of its three data bytes, read
\* twice.
C14_Witness ==
    /\ input = Encode(FileA) \o SubSeq(Encode(FileHi), 1, DataStart(FileHi) + 2)
    /\ Len(out) = 2
    /\ out[2] = Err("BufTooShort")

\* View v is the last Len(v) bytes of b.
IsSuffix(v, b) == Len(v) <= Len(b) /\ v = SubSeq(b, Len(b) - Len(v) + 1, Len(b))

\* C15: the view never grows back and is always a suffix of the buffer,
\* whatever a call returns.
C15_CursorForward == [][Len(buf') <= Len(buf) /\ IsSuffix(buf', input')]_vars

\* C15 witness: a call returned an error with the view moved into the buffer
\* and not at its end.
C15_Witness == res.kind = "Err" /\ Len(buf) \in 1..(Len(input) - 1)

\* The padding the format puts after n bytes.
Pad(n) == (4 - (n % 4)) % 4

\* The text and the value of the k-th hexadecimal field of the header at the
\* front of view b (file_size is the 7th, name_size the 12th).
FieldText(b, k) == SubSeq(b, 8 * k - 1, 8 * k + 6)
FieldOk(b, k) == from_utf8(FieldText(b, k)) /\ from_str_radix(FieldText(b, k)).ok
FieldValue(b, k) == from_str_radix(FieldText(b, k)).val

\* C16: a call that decodes a record, returned or trailer, moves the view by
\* 110 + name_size + p1 + file_size + p2 with p1 = (4 - (110 + name_size) % 4) % 4
\* and p2 = (4 - file_size % 4) % 4; and pad_to_4(n) = (4 - n % 4) % 4.
C16_Advance ==
    [][/\ \A n \in 0..Len(input) : pad_to_4(n) = Pad(n)
       /\ (next /\ res'.kind \in {"Ok", "None"}) =>
             LET name_size == FieldValue(buf, 12)
                 file_size == FieldValue(buf, 7)
             IN  Len(buf) - Len(buf') =
                     HEADER_LEN + name_size + Pad(HEADER_LEN + name_size)
                     + file_size + Pad(file_size)]_vars

\* C16 witness: the first call returned the file whose name and data both
\* need padding, and the view moved by the whole record.
C16_Witness ==
    /\ out = <<Object(FileHi.metadata, FileHi.name, FileHi.data)>>
    /\ Len(input) - Len(buf) = Len(Encode(FileHi))
    /\ Pad(DataStart(FileHi) - 2) = 2 /\ Pad(Len(FileHi.data)) = 1

\* The error the checks of a record, taken in the order length, magic, the 13
\* fields, name bytes, terminator, UTF-8, name padding, data, data padding,
\* meet first on view b; "" when none fails.
FirstDefect(b) ==
    IF Len(b) < HEADER_LEN THEN "BufTooShort"
    ELSE IF SubSeq(b, 1, 6) # MAGIC_NUMBER THEN "InvalidMagic"
    ELSE IF \E k \in 1..13 : ~FieldOk(b, k) THEN "InvalidASCII"
    ELSE
    LET name_size == FieldValue(b, 12)
        file_size == FieldValue(b, 7)
        after_name == Len(b) - HEADER_LEN - name_size
        after_pad1 == after_name - Pad(HEADER_LEN + name_size)
        after_data == after_pad1 - file_size
    IN  IF after_name < 0 THEN "BufTooShort"
        ELSE IF name_size = 0 \/ b[HEADER_LEN + name_size] # 0 THEN "InvalidName"
        ELSE IF ~from_utf8(SubSeq(b, HEADER_LEN + 1, HEADER_LEN + name_size - 1))
             THEN "InvalidName"
        ELSE IF after_pad1 < 0 THEN "BufTooShort"
        ELSE IF after_data < 0 THEN "BufTooShort"
        ELSE IF after_data - Pad(file_size) < 0 THEN "BufTooShort"
        ELSE ""

\* The first of the 13 fields of the header at the front of b that does not
\* decode.
FirstBadField(b) ==
    CHOOSE k \in 1..13 : ~FieldOk(b, k) /\ \A j \in 1..(k - 1) : FieldOk(b, j)

\* C17: a call returns the error of the first check that fails, in the order
\* length, magic, fields in header order, name bytes, terminator, UTF-8, name
\* padding, data, data padding; it returns a record or None only when no
\* check fails.
C17_FirstError ==
    [][next =>
         LET d == FirstDefect(buf)
         IN  /\ d # "" => res' = Err(d)
             /\ d = "" => res'.kind \in {"Ok", "None"}
             /\ d = "InvalidASCII" =>
                    Len(buf) - Len(buf') = 6 + 8 * FirstBadField(buf)]_vars

\* C17 witness: the second call started on a view with two defects, no magic
\* and a byte that is no hexadecimal digit among the field bytes, and
\* returned InvalidMagic.
C17_Witness ==
    /\ Len(out) = 2
    /\ out[1] = Err("InvalidASCII")
    /\ out[2] = Err("InvalidMagic")
    /\ LET pre == SubSeq(input, Len(input) - Len(buf) - 5, Len(input))
       IN  /\ Len(pre) >= HEADER_LEN
           /\ \E p \in FieldBytes : ~IsHexDigit(pre[p])

\* C18: while every call so far has decoded its record (returned it, or
\* returned None at a trailer), the number of bytes consumed is a multiple
\* of 4.
C18_Aligned ==
    (\A i \in Steps : out[i].kind \in {"Ok", "None"}) => (Len(input) - Len(buf)) % 4 = 0

\* C18 witness: two calls have decoded records, the first one the file whose
\* name and data need padding.
C18_Witness ==
    /\ Len(out) = 2
    /\ out[1] = Object(FileHi.metadata, FileHi.name, FileHi.data)
    /\ out[2].kind \in {"Ok", "None"}

\* Buffers that end inside the padding after the name, or after the data, of
\* their last record.
PadCuts ==
    UNION {CutAfter(fs, f, ((HEADER_LEN + Len(f.name) + 1)..(DataStart(f) - 1))
                           \cup (DataEnd(f)..(Len(Encode(f)) - 1))) :
           fs \in SeqsUpTo(Files, MaxRecords - 1), f \in Files \cup {Trailer}}

\* C19: when the buffer ends inside the padding that follows the name or the
\* data of a record, file or trailer, the call on that record returns
\* BufTooShort, not the record and not None.
C19_PaddingNeeded == \A c \in PadCuts : input = c.bytes => RecordsThenShort(c)

\* C19 witness: a trailer with one of its three padding bytes made the first
\* call return BufTooShort.
C19_Witness ==
    /\ input = SubSeq(Encode(Trailer), 1, HEADER_LEN + Len(TRAILER) + 2)
    /\ out = <<Err("BufTooShort")>>

\* Lengths to ask read_bytes for on view b: the small ones the reader asks
\* for, and those around the length of the view.
ReadLens(b) == {n \in {0, 1, 2, 3, 6, Len(b) - 1, Len(b), Len(b) + 1} : n >= 0}

\* C20: on every view the reader reaches, read_bytes(n) with fewer than n
\* bytes left returns BufTooShort and leaves the view as it is; otherwise it
\* returns the next n bytes and leaves the view n bytes shorter.
C20_ReadBytes ==
    \A n \in ReadLens(buf) :
        LET r == read_bytes(buf, n)
        IN  IF Len(buf) < n
            THEN r.status = "err" /\ r.err = "BufTooShort" /\ r.buf = buf
            ELSE /\ r.status = "ok"
                 /\ r.val = [i \in 1..n |-> buf[i]]
                 /\ Len(r.buf) = Len(buf) - n
                 /\ r.val \o r.buf = buf

\* C20 witness: the first call read the header, then read_bytes failed on
\* the name and left the view right behind the header.
C20_Witness ==
    /\ out = <<Err("BufTooShort")>>
    /\ Len(input) - Len(buf) = HEADER_LEN
    /\ Len(buf) < FieldValue(input, 12)

====
